---- MODULE Spec2Model ----
(***************************************************************************)
(* MARSTrainer (scarches/trainers/mars/mars_meta_trainer.py): the EM        *)
(* training loop of train()/on_epoch()/on_epoch_end(), the landmark         *)
(* updater, the two clustering losses and the label transfer of             *)
(* name_cell_types().                                                       *)
(*                                                                          *)
(* Numbers.  A real number is an exact rational <<n, d>> with d > 0 in      *)
(* lowest terms; <<0, 0>> is the float NaN.  Embeddings and landmarks are   *)
(* points of a line of the z_dim-dimensional latent space, each written as  *)
(* its coordinate on that line: means and the momentum update are affine,   *)
(* so they stay on the line, and the Euclidean distance of two points of    *)
(* the line is the absolute difference of their coordinates.                *)
(***************************************************************************)
EXTENDS Integers, Sequences, FiniteSets, TLC

----------------------------------------------------------------------------
(* Exact rational arithmetic with NaN.                                      *)

Abs(x) == IF x < 0 THEN -x ELSE x

RECURSIVE GCD(_, _)
GCD(a, b) == IF b = 0 THEN a ELSE GCD(b, a % b)

NaN == <<0, 0>>

IsNaN(a) == a[2] = 0

\* n/d in lowest terms with a positive denominator; x/0 is NaN (the model
\* only divides 0 by 0 where the code divides tensors)
Q(n, d) ==
    IF d = 0 THEN NaN
    ELSE LET g == GCD(Abs(n), Abs(d))
             s == IF d < 0 THEN -1 ELSE 1
         IN  <<(s * n) \div g, (s * d) \div g>>

R(n) == <<n, 1>>

RAdd(a, b) == IF IsNaN(a) \/ IsNaN(b) THEN NaN
              ELSE Q(a[1] * b[2] + b[1] * a[2], a[2] * b[2])

RNeg(a) == IF IsNaN(a) THEN NaN ELSE <<-a[1], a[2]>>

RSub(a, b) == RAdd(a, RNeg(b))

RMul(a, b) == IF IsNaN(a) \/ IsNaN(b) THEN NaN
              ELSE Q(a[1] * b[1], a[2] * b[2])

RDiv(a, b) == IF IsNaN(a) \/ IsNaN(b) THEN NaN
              ELSE Q(a[1] * b[2], a[2] * b[1])

RAbs(a) == IF IsNaN(a) THEN NaN ELSE <<Abs(a[1]), a[2]>>

\* a < b; every comparison with NaN is false, as for floats
RLt(a, b) == ~IsNaN(a) /\ ~IsNaN(b) /\ a[1] * b[2] < b[1] * a[2]

\* float equality: NaN equals nothing, itself included
REq(a, b) == ~IsNaN(a) /\ ~IsNaN(b) /\ a = b

RECURSIVE RSum(_)
RSum(s) == IF s = <<>> THEN R(0) ELSE RAdd(s[1], RSum(Tail(s)))

RMean(s) == RDiv(RSum(s), R(Len(s)))

----------------------------------------------------------------------------
(* Sequences.                                                               *)

Range(s) == {s[i] : i \in 1..Len(s)}

\* the elements of a finite set of integers in increasing order
RECURSIVE SortedSeq(_)
SortedSeq(S) ==
    IF S = {} THEN <<>>
    ELSE LET m == CHOOSE x \in S : \A y \in S : x <= y
         IN  <<m>> \o SortedSeq(S \ {m})

\* the subsequence of s at the positions where p holds
SelectIdx(s, p(_)) ==
    LET F[i \in 0..Len(s)] ==
            IF i = 0 THEN <<>>
            ELSE IF p(i) THEN Append(F[i - 1], s[i]) ELSE F[i - 1]
    IN  F[Len(s)]

\* s as a sequence built element by element
AsSeq(s) == SelectIdx(s, LAMBDA i : TRUE)

SeqsUpTo(S, lo, hi) == UNION {[1..n -> S] : n \in lo..hi}

----------------------------------------------------------------------------
(* Tensors of landmarks.  A k x z_dim tensor is [rank |-> 2, rows |-> the k *)
(* points]; a tensor of shape (z_dim,), which is what squeeze() makes of a  *)
(* 1 x z_dim tensor, is [rank |-> 1, rows |-> <<the point>>]; None is       *)
(* [rank |-> 0, rows |-> <<>>].                                             *)

\* self.model.z_dim, the dimension of the latent space (at least 2)
ZDim == 2

None == [rank |-> 0, rows |-> <<>>]

Tensor2(rows) == [rank |-> 2, rows |-> rows]

\* tensor.squeeze(): drops the dimension of size 1
squeeze(rows) == IF Len(rows) = 1 THEN [rank |-> 1, rows |-> rows] ELSE Tensor2(rows)

\* tensor.shape[0]
shape0(t) == IF t.rank = 2 THEN Len(t.rows) ELSE ZDim

\* the number of landmark points a stored tensor holds
n_stored(t) == Len(t.rows)

\* _utils.euclidean_dist(x, y) for x of N points and y of M points: the N x M
\* matrix of pairwise distances
euclidean_dist(x, y) ==
    [i \in 1..Len(x) |-> [j \in 1..Len(y) |-> RAbs(RSub(x[i], y[j]))]]

\* torch.unique(labels, sorted=True)
unique(labels) == SortedSeq(Range(labels))

\* labels.eq(y).nonzero(): the positions holding y
nonzero_eq(labels, y) == SelectIdx([i \in 1..Len(labels) |-> i], LAMBDA i : labels[i] = y)

\* torch.min(row)[1] / torch.max(-row)[1]: the first position of the smallest
\* entry, or of the first NaN when the row holds one (1-based)
argmin(row) ==
    IF \E j \in 1..Len(row) : IsNaN(row[j])
    THEN CHOOSE j \in 1..Len(row) : IsNaN(row[j]) /\ \A h \in 1..(j - 1) : ~IsNaN(row[h])
    ELSE CHOOSE j \in 1..Len(row) :
            /\ \A h \in 1..Len(row) : ~RLt(row[h], row[j])
            /\ \A h \in 1..(j - 1) : RLt(row[j], row[h])

----------------------------------------------------------------------------
(* update_meta_train_landmarks (lines 304-319).                             *)

\* embeddings[class_index].mean(0) for every class, stacked (line 308,
\* before the squeeze)
landmarks_mean_rows(embeddings, labels) ==
    LET unique_labels == unique(labels)
        class_indices == [u \in 1..Len(unique_labels) |-> nonzero_eq(labels, unique_labels[u])]
    IN  [u \in 1..Len(unique_labels) |->
            RMean([h \in 1..Len(class_indices[u]) |-> embeddings[class_indices[u][h]]])]

\* lines 313-317, reached with previous_landmarks a k x z_dim tensor
momentum_update(landmarks_mean, previous_landmarks, tau) ==
    LET prev == previous_landmarks.rows
        previous_landmarks_sum == RSum(prev)
        n_landmarks == shape0(previous_landmarks)
    IN  IF n_landmarks - 1 = 0
        THEN [err |-> "ZeroDivisionError", val |-> None]        \* tau / (n_landmarks - 1)
        ELSE IF tau = R(1)
        THEN [err |-> "ZeroDivisionError", val |-> None]        \* 1 / (1 - tau)
        ELSE IF landmarks_mean.rank = 2 /\ Len(landmarks_mean.rows) # n_landmarks
        THEN [err |-> "RuntimeError", val |-> None]             \* shapes do not broadcast
        ELSE LET partial == [i \in 1..n_landmarks |->
                                RMul(RDiv(tau, R(n_landmarks - 1)),
                                     RSub(previous_landmarks_sum, prev[i]))]
                 mean_at(i) == IF landmarks_mean.rank = 1 THEN landmarks_mean.rows[1]
                               ELSE landmarks_mean.rows[i]
             IN  [err |-> "none",
                  val |-> Tensor2([i \in 1..n_landmarks |->
                              RMul(RDiv(R(1), RSub(R(1), tau)),
                                   RSub(mean_at(i), partial[i]))])]

\* the update without the tau == 0 test of line 310
update_always_momentum(embeddings, labels, previous_landmarks, tau) ==
    LET landmarks_mean == squeeze(landmarks_mean_rows(embeddings, labels))
    IN  IF previous_landmarks = None
        THEN [err |-> "none", val |-> landmarks_mean]
        ELSE momentum_update(landmarks_mean, previous_landmarks, tau)

update_meta_train_landmarks(embeddings, labels, previous_landmarks, tau) ==
    LET landmarks_mean == squeeze(landmarks_mean_rows(embeddings, labels))
    IN  IF previous_landmarks = None \/ tau = R(0)
        THEN [err |-> "none", val |-> landmarks_mean]
        ELSE momentum_update(landmarks_mean, previous_landmarks, tau)

----------------------------------------------------------------------------
(* task_loss (lines 269-287) and test_loss (lines 289-302).                 *)

\* lines 274-275: for idx, value in enumerate(unique_labels):
\*                    labels[labels == value] = idx      (in place, in turn)
reindex_in_place(labels, unique_labels) ==
    LET F[n \in 0..Len(unique_labels)] ==
            IF n = 0 THEN labels
            ELSE [i \in 1..Len(labels) |->
                    IF F[n - 1][i] = unique_labels[n] THEN n - 1 ELSE F[n - 1][i]]
    IN  F[Len(unique_labels)]

\* y_pred.eq(labels).float().mean(); y_pred counts from 0
accuracy_of(distances, labels) ==
    LET hits == SelectIdx(labels, LAMBDA i : argmin(distances[i]) - 1 = labels[i])
    IN  Q(Len(hits), Len(labels))

\* what task_loss raises: euclidean_dist needs an M x z_dim tensor of landmarks
\* (line 277), and distances[indices, landmark_index] a column for every class
\* of the batch (line 280)
task_loss_err(labels, landmarks) ==
    IF landmarks.rank # 2 THEN "IndexError"
    ELSE IF Cardinality(Range(labels)) > Len(landmarks.rows) THEN "IndexError"
    ELSE "none"

task_loss(embeddings, labels, landmarks) ==
    LET n_samples == Len(embeddings)
        unique_labels == unique(labels)
        class_indices == [u \in 1..Len(unique_labels) |-> nonzero_eq(labels, unique_labels[u])]
        relabelled == reindex_in_place(labels, unique_labels)
    IN  IF task_loss_err(labels, landmarks) # "none"
        THEN [err |-> task_loss_err(labels, landmarks), loss |-> NaN, accuracy |-> NaN,
              labels |-> relabelled]
        ELSE LET distances == euclidean_dist(embeddings, landmarks.rows)
                 per_class == [u \in 1..Len(unique_labels) |->
                                 RSum([h \in 1..Len(class_indices[u]) |->
                                          distances[class_indices[u][h]][u]])]
             IN  [err |-> "none",
                  loss |-> RDiv(RSum(per_class), R(n_samples)),
                  accuracy |-> accuracy_of(distances, relabelled),
                  labels |-> relabelled]

\* the mean over every landmark, one without embeddings counting as 0
compactness_zero_padded(embeddings, landmarks) ==
    LET distances == euclidean_dist(embeddings, landmarks)
        y_hat == [i \in 1..Len(embeddings) |-> argmin(distances[i])]
        min_distances == [i \in 1..Len(embeddings) |-> distances[i][y_hat[i]]]
        cluster_mean(j) ==
            IF \E i \in 1..Len(embeddings) : y_hat[i] = j
            THEN RMean(SelectIdx(min_distances, LAMBDA i : y_hat[i] = j))
            ELSE R(0)
    IN  RMean([j \in 1..Len(landmarks) |-> cluster_mean(j)])

\* lines 290-295: the mean, over the landmarks that are the nearest of some
\* embedding, of the mean distance of the embeddings assigned to it
compactness(embeddings, landmarks) ==
    LET distances == euclidean_dist(embeddings, landmarks)
        y_hat == [i \in 1..Len(embeddings) |-> argmin(distances[i])]
        min_distances == [i \in 1..Len(embeddings) |-> distances[i][y_hat[i]]]
        unique_predicted_labels == unique(y_hat)
    IN  RMean([u \in 1..Len(unique_predicted_labels) |->
                 RMean(SelectIdx(min_distances,
                                 LAMBDA i : y_hat[i] = unique_predicted_labels[u]))])

\* lines 298-300: torch.sum(landmarks_distances) * tau / (n * (n - 1))
repulsion(landmarks, tau) ==
    LET landmarks_distances == euclidean_dist(landmarks, landmarks)
        n_landmarks == Len(landmarks)
        total == RSum([i \in 1..n_landmarks |-> RSum(landmarks_distances[i])])
    IN  RDiv(RMul(total, tau), R(n_landmarks * (n_landmarks - 1)))

test_loss(embeddings, landmarks, tau) ==
    IF RLt(R(0), tau)
    THEN RSub(compactness(embeddings, landmarks), repulsion(landmarks, tau))
    ELSE compactness(embeddings, landmarks)

----------------------------------------------------------------------------
(* Bounds and input sets.                                                   *)

\* n_epochs of train() is at most MaxEpochs
MaxEpochs == 2
\* at most MaxTasks labeled (meta-train) tasks
MaxTasks == 2

\* len(adataset.unique_cell_types) of a labeled task
CellTypeCounts == 1..3
\* the samples of a batch of the training loop
BatchLens == 1..3
\* the batches the unlabeled task's loader hands out per pass
TestBatchCounts == 1..2

\* tau: no repulsion, the default 0.2, and the two kinds of tau >= 1
TauVals == {R(0), Q(1, 5), R(1), Q(3, 2)}
\* n_clusters: one test landmark (test_loss divides by n * (n - 1)) or two
ClusterCounts == {1, 2}
\* eta (default 1.0)
EtaVals == {R(1), R(2)}

(* The training loop is followed at the level of the tensors' shapes: how   *)
(* many rows a tensor of landmarks has, whether it was squeezed, whether    *)
(* its entries are NaN.  Every finite entry is written 0 (the encoder, the  *)
(* k-means fit and an Adam step return the origin); what an operation       *)
(* raises and the shape it returns do not depend on the entries, which the  *)
(* unit-level specifications below follow.  The loss of the encoder phase   *)
(* is followed as a linear combination of the losses of the forward passes  *)
(* and of the clustering losses, whatever their values.                     *)

Zeros(n) == [i \in 1..n |-> R(0)]

\* the terms a loss is made of: <<"model", t>> is the loss the model returned
\* for the batch of labeled task t, <<"task", t>> is task_loss /
\* len(dataset) of task t (line 198), <<"model", -b>> and <<"test", -b>> are
\* the model's loss and test_loss of batch b of the unlabeled task
Terms == ({"model", "task"} \X (1..MaxTasks)) \cup
         ({"model", "test"} \X {-b : b \in TestBatchCounts})

\* linear combinations of the terms
LFZero == [x \in Terms |-> R(0)]
LFTerm(x) == [y \in Terms |-> IF y = x THEN R(1) ELSE R(0)]
LFAdd(f, g) == [x \in Terms |-> RAdd(f[x], g[x])]
LFScale(c, f) == [x \in Terms |-> RMul(c, f[x])]

VARIABLES
    pc,                        \* where train() stands
    cfg,                       \* the constructor's arguments and the data's shape
    epoch,                     \* epochs completed
    encoder_params,            \* the value of self.model.encoder's parameters, named by
                               \* the optimizer steps that made it (0: as pre-trained)
    params_requires_grad,      \* requires_grad of every parameter of self.model
    test_requires_grad,        \* self.meta_test_landmarks.requires_grad
    meta_train_landmarks,      \* one tensor per labeled task
    meta_test_landmarks,       \* the n_clusters test landmarks
    idx,                       \* the task the current loop of on_epoch is at
    batch_no,                  \* the batch the pass over the unlabeled task is at
    loss,                      \* on_epoch's local loss in the encoder phase
    landmark_updates,          \* history: stores into self.meta_train_landmarks
    optimizer_steps,           \* calls of self.optimizer.step()
    landmark_optimizer_steps,  \* calls of self.meta_test_landmark_optimizer.step()
    lr_scheduler_steps,        \* calls of self.lr_scheduler.step()
    error,                     \* the exception that ended train(), or "none"
    log,                       \* history: the steps of the current epoch, in order
    call,                      \* unit level: the arguments of a call
    ret                        \* unit level: what the call returned

vars == <<pc, cfg, epoch, encoder_params, params_requires_grad, test_requires_grad,
          meta_train_landmarks, meta_test_landmarks, idx, batch_no, loss,
          landmark_updates, optimizer_steps, landmark_optimizer_steps, lr_scheduler_steps, error,
          log, call, ret>>

NoCall == [fn |-> "none"]

\* len(self.meta_train_data_loaders_tr)
n_tasks == Len(cfg.n_cell_types)

\* MARSTrainer(...) and the data: tau, eta, n_clusters,
\* len(adataset.unique_cell_types) of every labeled task (its labels are
\* 0 .. that number - 1), and the batches the unlabeled task's loader hands
\* out per pass.  A labeled task's loader is built with batch_size=0 (line
\* 43): one batch, the task's training split.
Configs ==
    [tau : TauVals, eta : EtaVals, n_clusters : ClusterCounts,
     n_cell_types : SeqsUpTo(CellTypeCounts, 1, MaxTasks),
     n_test_batches : TestBatchCounts]

\* the batch of labeled task t after the forward pass: encoded and y.  The
\* training split need not hold every cell type of the task.
TaskBatches(t) ==
    {[encoded |-> Zeros(Len(y)), y |-> y] :
        y \in UNION {[1..n -> 0..(cfg.n_cell_types[t] - 1)] : n \in BatchLens}}

\* a batch of the unlabeled task after the forward pass
TestBatches == {Zeros(n) : n \in BatchLens}

\* KMeans(n_clusters=k).fit(encoded).cluster_centers_
KMeansCenters(k) == Zeros(k)

TrainInit ==
    /\ pc = "begin"
    /\ cfg \in Configs
    /\ epoch = 0
    /\ encoder_params = 0
    /\ params_requires_grad = TRUE
    /\ test_requires_grad = TRUE
    /\ meta_train_landmarks = <<>>
    /\ meta_test_landmarks = <<>>
    /\ idx = 0
    /\ batch_no = 0
    /\ loss = LFZero
    /\ landmark_updates = 0
    /\ optimizer_steps = 0
    /\ landmark_optimizer_steps = 0
    /\ lr_scheduler_steps = 0
    /\ error = "none"
    /\ log = <<>>

Init == TrainInit /\ call = NoCall /\ ret = NoCall

\* an exception leaves train()
Raise(e) ==
    /\ pc' = "aborted"
    /\ error' = e

\* the head of "for self.epoch in range(n_epochs)" after e epochs: n_epochs,
\* which nothing else reads, is e or more
LoopHead(e) == IF e < MaxEpochs THEN {"freeze", "finish"} ELSE {"finish"}

----------------------------------------------------------------------------
(* train() (lines 105-144), on_training_begin() (33-63), on_epoch()         *)
(* (146-215) and on_epoch_end() (217-255), one action per step.             *)

\* lines 82-103: initialize_landmarks(): one k-means fit per task
initialize_landmarks ==
    [train |-> [t \in 1..n_tasks |-> Tensor2(KMeansCenters(cfg.n_cell_types[t]))],
     test |-> KMeansCenters(cfg.n_clusters)]

\* line 112: on_training_begin(): the loaders, the pre-training (its own
\* optimizer), initialize_landmarks(), the two optimizers and the scheduler
on_training_begin ==
    /\ pc = "begin"
    /\ meta_train_landmarks' = initialize_landmarks.train
    /\ meta_test_landmarks' = initialize_landmarks.test
    /\ encoder_params' = 0
    /\ params_requires_grad' = TRUE
    /\ test_requires_grad' = TRUE
    /\ optimizer_steps' = 0
    /\ landmark_optimizer_steps' = 0
    /\ lr_scheduler_steps' = 0
    /\ pc' \in LoopHead(0)
    /\ UNCHANGED <<cfg, epoch, idx, batch_no, loss, landmark_updates, error, log, call, ret>>

\* lines 147-153: every parameter and the test landmarks stop requiring grad
freeze_all ==
    /\ pc = "freeze"
    /\ params_requires_grad' = FALSE
    /\ test_requires_grad' = FALSE
    /\ idx' = 1
    /\ log' = <<<<"freeze", 0>>>>
    /\ pc' = "refresh"
    /\ UNCHANGED <<cfg, encoder_params, epoch, meta_train_landmarks, meta_test_landmarks, batch_no,
                   loss, landmark_updates, optimizer_steps, landmark_optimizer_steps,
                   lr_scheduler_steps, error, call, ret>>

\* the refresh storing task idx's landmarks as the landmarks of every task
refresh_every_task ==
    /\ pc = "refresh"
    /\ \E task_data \in TaskBatches(idx) :
         LET current == update_meta_train_landmarks(task_data.encoded, task_data.y,
                                                    meta_train_landmarks[idx], cfg.tau)
         IN  IF current.err # "none"
             THEN /\ Raise(current.err)
                  /\ UNCHANGED <<meta_train_landmarks, landmark_updates, idx, log>>
             ELSE /\ meta_train_landmarks' =
                        [u \in 1..n_tasks |-> current.val]
                  /\ landmark_updates' = landmark_updates + 1
                  /\ log' = Append(log, <<"refresh", idx>>)
                  /\ idx' = idx + 1
                  /\ pc' = IF idx = n_tasks THEN "enable_test" ELSE "refresh"
                  /\ error' = error
    /\ UNCHANGED <<cfg, encoder_params, epoch, params_requires_grad, test_requires_grad,
                   meta_test_landmarks, batch_no, loss, optimizer_steps,
                   landmark_optimizer_steps, lr_scheduler_steps,
                   call, ret>>

\* lines 155-166: the batch of task idx refreshes that task's landmarks
refresh_task_landmarks ==
    /\ pc = "refresh"
    /\ \E task_data \in TaskBatches(idx) :
         LET current == update_meta_train_landmarks(task_data.encoded, task_data.y,
                                                    meta_train_landmarks[idx], cfg.tau)
         IN  IF current.err # "none"
             THEN /\ Raise(current.err)
                  /\ UNCHANGED <<meta_train_landmarks, landmark_updates, idx, log>>
             ELSE /\ meta_train_landmarks' =
                        [meta_train_landmarks EXCEPT ![idx] = current.val]
                  /\ landmark_updates' = landmark_updates + 1
                  /\ log' = Append(log, <<"refresh", idx>>)
                  /\ idx' = idx + 1
                  /\ pc' = IF idx = n_tasks THEN "enable_test" ELSE "refresh"
                  /\ error' = error
    /\ UNCHANGED <<cfg, encoder_params, epoch, params_requires_grad, test_requires_grad,
                   meta_test_landmarks, batch_no, loss, optimizer_steps,
                   landmark_optimizer_steps, lr_scheduler_steps,
                   call, ret>>

\* line 168 left out: the test landmarks stay frozen
enable_test_landmarks_skipped ==
    /\ pc = "enable_test"
    /\ batch_no' = 1
    /\ pc' = "test_opt"
    /\ UNCHANGED <<cfg, encoder_params, epoch, params_requires_grad, test_requires_grad,
                   meta_train_landmarks, meta_test_landmarks, idx, loss,
                   landmark_updates, optimizer_steps, landmark_optimizer_steps,
                   lr_scheduler_steps, error, log, call, ret>>

\* line 168
enable_test_landmarks ==
    /\ pc = "enable_test"
    /\ test_requires_grad' = TRUE
    /\ batch_no' = 1
    /\ pc' = "test_opt"
    /\ UNCHANGED <<cfg, encoder_params, epoch, params_requires_grad, meta_train_landmarks,
                   meta_test_landmarks, idx, loss, landmark_updates, optimizer_steps,
                   landmark_optimizer_steps, lr_scheduler_steps, error, log, call, ret>>

\* loss.backward(): raises when nothing the loss depends on requires grad
CanBackward == params_requires_grad \/ test_requires_grad

\* what meta_test_landmark_optimizer.step() leaves the test landmarks at: a
\* parameter without a gradient is skipped, a NaN loss makes every entry NaN
AdamLandmarkStep(l) ==
    IF ~test_requires_grad THEN meta_test_landmarks
    ELSE IF IsNaN(l) THEN [i \in 1..Len(meta_test_landmarks) |-> NaN]
    ELSE Zeros(Len(meta_test_landmarks))

\* lines 169-176: one batch of the unlabeled task, one landmark optimizer
\* step (the loss of line 173 is not read after its backward())
test_landmark_step ==
    /\ pc = "test_opt"
    /\ \E encoded \in TestBatches :
         LET l == test_loss(encoded, meta_test_landmarks, cfg.tau)
         IN  IF ~CanBackward
             THEN /\ Raise("RuntimeError")
                  /\ UNCHANGED <<meta_test_landmarks, batch_no,
                                 landmark_optimizer_steps, log>>
             ELSE /\ meta_test_landmarks' = AdamLandmarkStep(l)
                  /\ landmark_optimizer_steps' = landmark_optimizer_steps + 1
                  /\ log' = Append(log, <<"landmark_step", 0>>)
                  /\ batch_no' = batch_no + 1
                  /\ pc' = IF batch_no = cfg.n_test_batches THEN "unfreeze" ELSE "test_opt"
                  /\ error' = error
    /\ UNCHANGED <<cfg, encoder_params, epoch, params_requires_grad, test_requires_grad,
                   meta_train_landmarks, idx, loss, landmark_updates, optimizer_steps,
                   lr_scheduler_steps, call, ret>>

\* lines 179-185: the parameters require grad again, the test landmarks do not
unfreeze_encoder ==
    /\ pc = "unfreeze"
    /\ params_requires_grad' = TRUE
    /\ test_requires_grad' = FALSE
    /\ loss' = LFZero
    /\ idx' = 1
    /\ log' = Append(log, <<"unfreeze", 0>>)
    /\ pc' = "encoder_tasks"
    /\ UNCHANGED <<cfg, encoder_params, epoch, meta_train_landmarks, meta_test_landmarks, batch_no,
                   landmark_updates, optimizer_steps, landmark_optimizer_steps,
                   lr_scheduler_steps, error, call, ret>>

\* lines 193-198 for task t: the model's loss replaces loss (line 193), then
\* loss = self.eta * loss + task_loss / len(task_data_loader_tr.dataset)
task_term(t) ==
    LET loss_193 == LFTerm(<<"model", t>>)
    IN  LFAdd(LFScale(cfg.eta, loss_193), LFTerm(<<"task", t>>))

\* lines 207-208 for batch b of the unlabeled task: the model's loss replaces
\* loss, then loss = self.eta * loss + self.test_loss(...)
test_term(b) ==
    LET loss_207 == LFTerm(<<"model", -b>>)
    IN  LFAdd(LFScale(cfg.eta, loss_207), LFTerm(<<"test", -b>>))

\* lines 186-199: task idx in the encoder phase
encoder_task_batch ==
    /\ pc = "encoder_tasks"
    /\ \E batch_data \in TaskBatches(idx) :
         LET r == task_loss(batch_data.encoded, batch_data.y, meta_train_landmarks[idx])
         IN  IF r.err # "none"
             THEN /\ Raise(r.err)
                  /\ UNCHANGED <<idx, loss>>
             ELSE /\ loss' = task_term(idx)
                  /\ idx' = idx + 1
                  /\ pc' = IF idx = n_tasks THEN "encoder_test" ELSE "encoder_tasks"
                  /\ error' = error
    /\ batch_no' = 1
    /\ UNCHANGED <<cfg, encoder_params, epoch, params_requires_grad, test_requires_grad,
                   meta_train_landmarks, meta_test_landmarks, landmark_updates,
                   optimizer_steps, landmark_optimizer_steps, lr_scheduler_steps,
                   log, call, ret>>

\* lines 204-208: one batch of the unlabeled task in the encoder phase
encoder_test_batch ==
    /\ pc = "encoder_test"
    /\ loss' = test_term(batch_no)
    /\ batch_no' = batch_no + 1
    /\ pc' = IF batch_no = cfg.n_test_batches THEN "encoder_step" ELSE "encoder_test"
    /\ UNCHANGED <<cfg, encoder_params, epoch, params_requires_grad, test_requires_grad,
                   meta_train_landmarks, meta_test_landmarks, idx, landmark_updates,
                   optimizer_steps, landmark_optimizer_steps, lr_scheduler_steps,
                   error, log, call, ret>>

\* what self.optimizer.step() leaves the encoder's parameters at (line 58:
\* the optimizer holds the encoder's parameters and nothing else): a
\* parameter without a gradient is skipped
AdamEncoderStep ==
    IF ~params_requires_grad THEN encoder_params ELSE encoder_params + 1

\* lines 210-215: loss / (n_tasks + 1), backward, one encoder optimizer step
encoder_step ==
    /\ pc = "encoder_step"
    /\ IF ~CanBackward
       THEN /\ Raise("RuntimeError")
            /\ UNCHANGED <<loss, encoder_params, optimizer_steps, log>>
       ELSE /\ loss' = LFScale(Q(1, n_tasks + 1), loss)
            /\ encoder_params' = AdamEncoderStep
            /\ optimizer_steps' = optimizer_steps + 1
            /\ log' = Append(log, <<"encoder_step", 0>>)
            /\ pc' = "evaluate"
            /\ error' = error
    /\ UNCHANGED <<cfg, epoch, params_requires_grad, test_requires_grad,
                   meta_train_landmarks, meta_test_landmarks, idx, batch_no,
                   landmark_updates, landmark_optimizer_steps, lr_scheduler_steps, call, ret>>

\* lines 222-236: some held-out batch makes task_loss raise / the held-out
\* batches of all tasks go through
HeldOutRaises ==
    \E t \in 1..n_tasks : \E held_out \in TaskBatches(t) :
        task_loss_err(held_out.y, meta_train_landmarks[t]) # "none"
HeldOutPasses ==
    \A t \in 1..n_tasks : \E held_out \in TaskBatches(t) :
        task_loss_err(held_out.y, meta_train_landmarks[t]) = "none"

\* lines 116-135 and 217-255: on_epoch() has returned loss and acc;
\* on_epoch_end() puts the held-out batch of every labeled task through
\* task_loss and the unlabeled task through evaluate_on_unannotated_dataset,
\* and the results are logged
on_epoch_end ==
    /\ pc = "evaluate"
    /\ \/ /\ HeldOutRaises = TRUE
          /\ Raise("IndexError")
          /\ UNCHANGED <<epoch, log, loss>>
       \/ /\ HeldOutPasses = TRUE
          /\ epoch' = epoch + 1
          /\ log' = Append(log, <<"evaluate", 0>>)
          /\ loss' = LFZero
                /\ pc' \in LoopHead(epoch + 1)
          /\ error' = error
    /\ UNCHANGED <<cfg, encoder_params, params_requires_grad, test_requires_grad,
                   meta_train_landmarks, meta_test_landmarks, idx, batch_no,
                   landmark_updates, optimizer_steps, landmark_optimizer_steps,
                   lr_scheduler_steps, call, ret>>

\* lines 137-144: the loop is over, train() returns
finish_training ==
    /\ pc = "finish"
    /\ pc' = "done"
    /\ UNCHANGED <<cfg, encoder_params, epoch, params_requires_grad, test_requires_grad,
                   meta_train_landmarks, meta_test_landmarks, idx, batch_no, loss,
                   landmark_updates, optimizer_steps, landmark_optimizer_steps,
                   lr_scheduler_steps, error, log, call, ret>>

Next ==
    \/ on_training_begin
    \/ freeze_all
    \/ refresh_task_landmarks
    \/ enable_test_landmarks
    \/ test_landmark_step
    \/ unfreeze_encoder
    \/ encoder_task_batch
    \/ encoder_test_batch
    \/ encoder_step
    \/ on_epoch_end
    \/ finish_training

Spec == Init /\ [][Next]_vars


----------------------------------------------------------------------------
(* Claims about the training loop, checked under Spec.                      *)

IsPrefix(s, t) == Len(s) <= Len(t) /\ \A i \in 1..Len(s) : s[i] = t[i]

\* the steps of one whole epoch, in the order the specification gives them
ExpectedLog ==
    <<<<"freeze", 0>>>>
    \o [t \in 1..n_tasks |-> <<"refresh", t>>]
    \o [b \in 1..cfg.n_test_batches |-> <<"landmark_step", 0>>]
    \o <<<<"unfreeze", 0>>, <<"encoder_step", 0>>, <<"evaluate", 0>>>>

\* the requires_grad flags each part of an epoch runs under, and the steps
\* that are complete when it starts
PhaseState ==
    /\ pc = "refresh" =>
          /\ ~params_requires_grad /\ ~test_requires_grad
          /\ Len(log) = idx
    /\ pc = "enable_test" =>
          /\ ~params_requires_grad
          /\ Len(log) = 1 + n_tasks
    /\ pc = "test_opt" =>
          /\ ~params_requires_grad /\ test_requires_grad
          /\ Len(log) = n_tasks + batch_no
    /\ pc = "unfreeze" => Len(log) = 1 + n_tasks + cfg.n_test_batches
    /\ pc \in {"encoder_tasks", "encoder_test", "encoder_step"} =>
          /\ params_requires_grad /\ ~test_requires_grad
          /\ Len(log) = 2 + n_tasks + cfg.n_test_batches
          /\ optimizer_steps = epoch
    /\ pc = "evaluate" =>
          /\ Len(log) = 3 + n_tasks + cfg.n_test_batches
          /\ optimizer_steps = epoch + 1
    /\ (pc \in {"freeze", "finish", "done"} /\ epoch > 0) =>
          /\ log = ExpectedLog
          /\ optimizer_steps = epoch

\* C1: in every epoch the steps come in the order freeze, one landmark
\* refresh per labeled task, the test-landmark optimizer steps, unfreeze, one
\* encoder optimizer step, evaluation, each complete before the next starts;
\* the encoder optimizer steps only while the parameters require grad, the
\* test-landmark optimizer only while the test landmarks do.
C1_PhaseOrder ==
    /\ [](IsPrefix(log, ExpectedLog) /\ PhaseState)
    /\ [][/\ optimizer_steps' # optimizer_steps =>
                /\ params_requires_grad /\ params_requires_grad'
                /\ optimizer_steps' = optimizer_steps + 1
          /\ landmark_optimizer_steps' # landmark_optimizer_steps =>
                /\ test_requires_grad /\ test_requires_grad'
                /\ ~params_requires_grad]_vars

\* two whole epochs have run
C1_Witness == pc = "done" /\ epoch = 2 /\ log = ExpectedLog /\ n_tasks = 2

\* the combined loss of the specification: the labeled tasks' terms and the
\* unlabeled task's term (its last batch), over n_tasks + 1
RECURSIVE LFSum(_)
LFSum(s) == IF s = <<>> THEN LFZero ELSE LFAdd(s[1], LFSum(Tail(s)))

CombinedLoss ==
    LFScale(Q(1, n_tasks + 1),
            LFAdd(LFSum([t \in 1..n_tasks |->
                            LFAdd(LFScale(cfg.eta, LFTerm(<<"model", t>>)),
                                  LFTerm(<<"task", t>>))]),
                  LFAdd(LFScale(cfg.eta, LFTerm(<<"model", -cfg.n_test_batches>>)),
                        LFTerm(<<"test", -cfg.n_test_batches>>))))

\* C2: the loss the encoder phase backpropagates and returns is the sum over
\* the labeled tasks of eta * reconstruction_loss + task_loss, plus the
\* unlabeled task's eta * reconstruction_loss + test_loss, over n_tasks + 1;
\* every labeled task's task_loss is part of it.
C2_CombinedLoss ==
    pc = "evaluate" =>
        /\ loss = CombinedLoss
        /\ \A t \in 1..n_tasks : loss[<<"task", t>>] # R(0)

\* C4: the number of landmarks stored for a labeled task is the number of
\* cell types of the task, after the initialization and after every refresh.
C4_LandmarkCount ==
    pc \notin {"begin"} =>
        \A t \in 1..n_tasks : n_stored(meta_train_landmarks[t]) = cfg.n_cell_types[t]

\* C7: after e epochs the scheduler has been stepped e times.
C7_SchedulerSteps ==
    pc \in {"freeze", "finish", "done"} => lr_scheduler_steps = epoch

\* tau >= 1, or tau > 0 with fewer than two landmarks in some collection
InvalidConfig ==
    \/ ~RLt(cfg.tau, R(1))
    \/ /\ RLt(R(0), cfg.tau)
       /\ \/ cfg.n_clusters < 2
          \/ \E t \in 1..n_tasks : cfg.n_cell_types[t] < 2

\* C8: with an invalid configuration the trainer has reported an error once
\* on_training_begin is over, before any epoch starts, and no landmark
\* update and no optimizer step is ever performed.
C8_EagerValidation ==
    (InvalidConfig /\ pc # "begin") =>
        /\ error # "none"
        /\ landmark_updates = 0
        /\ landmark_optimizer_steps = 0
        /\ optimizer_steps = 0

\* the labeled tasks' landmarks other than task t's stay as they are
OtherTasksUnchanged(t) ==
    /\ Len(meta_train_landmarks') = Len(meta_train_landmarks)
    /\ \A u \in 1..n_tasks : u # t => meta_train_landmarks'[u] = meta_train_landmarks[u]

\* C11: each phase of an epoch changes only the state it owns: the refresh
\* of task idx changes of the encoder's parameters, the test landmarks and
\* the tasks' landmarks only meta_train_landmarks[idx]; the test-landmark
\* optimization changes only the test landmarks; the encoder optimization
\* changes only the encoder's parameters; the evaluation (on_epoch_end), like
\* the switching of requires_grad between the phases, changes none of them.
C11_FrameEffects ==
    [][/\ pc = "refresh" =>
             /\ UNCHANGED <<encoder_params, meta_test_landmarks>>
             /\ OtherTasksUnchanged(idx)
       /\ pc = "test_opt" =>
             UNCHANGED <<encoder_params, meta_train_landmarks>>
       /\ pc \in {"encoder_tasks", "encoder_test", "encoder_step"} =>
             UNCHANGED <<meta_test_landmarks, meta_train_landmarks>>
       /\ pc \in {"freeze", "enable_test", "unfreeze", "evaluate"} =>
             UNCHANGED <<encoder_params, meta_test_landmarks, meta_train_landmarks>>]_vars

\* two whole epochs of two tasks: the encoder was stepped twice, the refresh
\* left task 1 with fewer landmarks than at initialization and task 2 with
\* as many, and the test landmarks were stepped in every batch
C11_Witness ==
    /\ pc = "done"
    /\ epoch = 2
    /\ n_tasks = 2
    /\ encoder_params = 2
    /\ n_stored(meta_train_landmarks[1]) < cfg.n_cell_types[1]
    /\ n_stored(meta_train_landmarks[2]) = cfg.n_cell_types[2]
    /\ landmark_optimizer_steps = 2 * cfg.n_test_batches

----------------------------------------------------------------------------
(* Unit level: one call of a method of the trainer on arguments drawn from  *)
(* bounded sets.  The training loop stands still.                           *)

\* at most MaxN samples (embeddings, labels) in a call
MaxN == 3
\* at most MaxK landmarks in a call
MaxK == 3

\* coordinates of the embeddings and of the landmarks
EmbVals == {R(0), R(3)}
LandmarkVals == {R(0), R(2)}
\* label ids: a negative one, one that is an index of another, a gap
LabelVals == {-1, 0, 2}

TrainIdle ==
    /\ pc = "unit"
    /\ cfg = [tau |-> R(0), eta |-> R(1), n_clusters |-> 1, n_cell_types |-> <<1>>,
              n_test_batches |-> 1]
    /\ epoch = 0
    /\ encoder_params = 0
    /\ params_requires_grad = TRUE
    /\ test_requires_grad = TRUE
    /\ meta_train_landmarks = <<>>
    /\ meta_test_landmarks = <<>>
    /\ idx = 0
    /\ batch_no = 0
    /\ loss = LFZero
    /\ landmark_updates = 0
    /\ optimizer_steps = 0
    /\ landmark_optimizer_steps = 0
    /\ lr_scheduler_steps = 0
    /\ error = "none"
    /\ log = <<>>

UnitFrame ==
    UNCHANGED <<pc, cfg, epoch, encoder_params, params_requires_grad, test_requires_grad,
                meta_train_landmarks, meta_test_landmarks, idx, batch_no, loss,
                landmark_updates, optimizer_steps, landmark_optimizer_steps,
                lr_scheduler_steps, error, log, call>>

\* embeddings and labels of the same length
Samples(labelvals) ==
    UNION {[embeddings : [1..n -> EmbVals], labels : [1..n -> labelvals]] : n \in 1..MaxN}

\* k x z_dim tensors of landmarks, 1 <= k <= MaxK
LandmarkTensors == {Tensor2(rows) : rows \in SeqsUpTo(LandmarkVals, 1, MaxK)}

----------------------------------------------------------------------------
(* update_meta_train_landmarks.                                             *)

InitUpdate ==
    /\ TrainIdle
    /\ \E s \in Samples({0, 2}), p \in LandmarkTensors \cup {None}, t \in TauVals :
          call = [fn |-> "update_meta_train_landmarks", embeddings |-> s.embeddings,
                  labels |-> s.labels, previous_landmarks |-> p, tau |-> t]
    /\ ret = NoCall

call_update_meta_train_landmarks ==
    /\ call.fn = "update_meta_train_landmarks"
    /\ ret = NoCall
    /\ LET r == update_meta_train_landmarks(call.embeddings, call.labels,
                                            call.previous_landmarks, call.tau)
       IN  ret' = [fn |-> call.fn, err |-> r.err, val |-> r.val]
    /\ UnitFrame

SpecUpdate == InitUpdate /\ [][call_update_meta_train_landmarks]_vars

\* the i-th smallest element of a set of integers
IthSmallest(S, i) == CHOOSE x \in S : Cardinality({y \in S : y < x}) = i - 1

\* the sum of the embeddings at the positions P
RECURSIVE SumAt(_, _)
SumAt(embeddings, P) ==
    IF P = {} THEN R(0)
    ELSE LET p == CHOOSE p \in P : TRUE
         IN  RAdd(embeddings[p], SumAt(embeddings, P \ {p}))

\* row i of val is the mean of the embeddings labelled with the i-th smallest
\* distinct label
IsPerClassMean(val, embeddings, labels) ==
    /\ Len(val.rows) = Cardinality(Range(labels))
    /\ \A i \in 1..Len(val.rows) :
          LET P == {p \in 1..Len(labels) : labels[p] = IthSmallest(Range(labels), i)}
          IN  REq(RMul(val.rows[i], R(Cardinality(P))), SumAt(embeddings, P))

\* C9: with tau = 0, update_meta_train_landmarks returns the per-class mean
\* of the embeddings, row i being the mean over the i-th smallest distinct
\* label, whatever previous_landmarks is: absent, or with any number of rows.
C9_TauZeroIsClassMean ==
    (ret.fn = "update_meta_train_landmarks" /\ call.tau = R(0)) =>
        /\ ret.err = "none"
        /\ IsPerClassMean(ret.val, call.embeddings, call.labels)

\* tau = 0, two classes, three previous landmarks
C9_Witness ==
    /\ ret.fn = "update_meta_train_landmarks"
    /\ call.tau = R(0)
    /\ Cardinality(Range(call.labels)) = 2
    /\ call.previous_landmarks.rank = 2
    /\ Len(call.previous_landmarks.rows) = 3
    /\ ret.val.rows = <<R(3), Q(3, 2)>>

----------------------------------------------------------------------------
(* test_loss.                                                               *)

InitTestLoss ==
    /\ TrainIdle
    /\ \E e \in SeqsUpTo(EmbVals, 1, MaxN), l \in SeqsUpTo(LandmarkVals, 1, MaxK),
          t \in TauVals :
          call = [fn |-> "test_loss", embeddings |-> e, landmarks |-> l, tau |-> t]
    /\ ret = NoCall

call_test_loss ==
    /\ call.fn = "test_loss"
    /\ ret = NoCall
    /\ ret' = [fn |-> call.fn, loss |-> test_loss(call.embeddings, call.landmarks, call.tau)]
    /\ UnitFrame

SpecTestLoss == InitTestLoss /\ [][call_test_loss]_vars

\* landmark j is the nearest landmark (torch.min's choice) of no embedding
NeverNearest(embeddings, landmarks, j) ==
    \A i \in 1..Len(embeddings) : argmin(euclidean_dist(embeddings, landmarks)[i]) # j

RemoveAt(s, j) == SubSeq(s, 1, j - 1) \o SubSeq(s, j + 1, Len(s))

\* C5, as stated: whatever tau is, test_loss is what it is with a landmark
\* that is never the nearest of any embedding removed.
C5_EmptyClusterExcluded_AnyTau ==
    ret.fn = "test_loss" =>
        \A j \in 1..Len(call.landmarks) :
            (Len(call.landmarks) > 1 /\ NeverNearest(call.embeddings, call.landmarks, j)) =>
                REq(ret.loss,
                    test_loss(call.embeddings, RemoveAt(call.landmarks, j), call.tau))

\* C5, amended: with tau = 0 test_loss is what it is with a landmark that is
\* never the nearest of any embedding removed; with any tau this holds of the
\* mean over the clusters, the part of the loss tau does not enter.
C5_EmptyClusterExcluded_TauZero ==
    ret.fn = "test_loss" =>
        \A j \in 1..Len(call.landmarks) :
            (Len(call.landmarks) > 1 /\ NeverNearest(call.embeddings, call.landmarks, j)) =>
                /\ call.tau = R(0) =>
                      REq(ret.loss,
                          test_loss(call.embeddings, RemoveAt(call.landmarks, j), call.tau))
                /\ REq(compactness(call.embeddings, call.landmarks),
                       compactness(call.embeddings, RemoveAt(call.landmarks, j)))

\* tau = 0, three landmarks of which the third is never the nearest, and a
\* loss that is not 0
C5_Witness ==
    /\ ret.fn = "test_loss"
    /\ call.tau = R(0)
    /\ call.landmarks = <<R(0), R(2), R(0)>>
    /\ call.embeddings = <<R(0), R(3)>>
    /\ NeverNearest(call.embeddings, call.landmarks, 3)
    /\ ret.loss = Q(1, 2)

----------------------------------------------------------------------------
(* task_loss.                                                               *)

InitTaskLoss ==
    /\ TrainIdle
    /\ \E s \in Samples(LabelVals), l \in LandmarkTensors :
          call = [fn |-> "task_loss", embeddings |-> s.embeddings, labels |-> s.labels,
                  landmarks |-> l]
    /\ ret = NoCall

call_task_loss ==
    /\ call.fn = "task_loss"
    /\ ret = NoCall
    /\ LET r == task_loss(call.embeddings, call.labels, call.landmarks)
       IN  ret' = [fn |-> call.fn, err |-> r.err, loss |-> r.loss,
                   accuracy |-> r.accuracy, labels |-> r.labels]
    /\ UnitFrame

SpecTaskLoss == InitTaskLoss /\ [][call_task_loss]_vars

\* a and b induce the same partition of the samples with the same order of
\* the classes
OrderIsomorphic(a, b) ==
    /\ Len(a) = Len(b)
    /\ \A i, j \in 1..Len(a) : (a[i] < a[j]) <=> (b[i] < b[j])

\* C6: the accuracy task_loss returns is the same for every label vector
\* that induces the same partition with the same order of the classes,
\* negative ids and ids equal to an index of another label included: the
\* in-place re-indexing maps the i-th smallest distinct label to i (from 0).
C6_AccuracyOrderInvariant ==
    (ret.fn = "task_loss" /\ ret.err = "none") =>
        /\ \A b \in [1..Len(call.labels) -> LabelVals] :
              OrderIsomorphic(call.labels, b) =>
                  task_loss(call.embeddings, b, call.landmarks).accuracy = ret.accuracy
        /\ \A i \in 1..Len(call.labels) :
              ret.labels[i] = Cardinality({u \in Range(call.labels) : u < call.labels[i]})

----------------------------------------------------------------------------
(* name_cell_types (lines 343-419).                                         *)

\* self.meta_adata.cell_type_encoder
cell_type_encoder == ("A" :> 0) @@ ("B" :> 1) @@ ("C" :> 2)

\* line 348: {v: k for k, v in cell_type_encoder.items()}
cell_name_mappings ==
    [v \in {cell_type_encoder[k] : k \in DOMAIN cell_type_encoder} |->
        CHOOSE k \in DOMAIN cell_type_encoder : cell_type_encoder[k] = v]

\* np.argsort(values): the positions in increasing order of the values, equal
\* values in the order of their positions (1-based)
argsort(values) ==
    [r \in 1..Len(values) |->
        CHOOSE i \in 1..Len(values) :
            Cardinality({j \in 1..Len(values) :
                            \/ RLt(values[j], values[i])
                            \/ (values[j] = values[i] /\ j < i)}) = r - 1]

\* s[-k:] for k >= 0: the last k elements, and the whole of s when k = 0
last_elements(s, k) ==
    IF k = 0 THEN s
    ELSE SubSeq(s, IF Len(s) - k + 1 < 1 THEN 1 ELSE Len(s) - k + 1, Len(s))

\* lines 382-405 for one cluster of positive similarity: its candidates
\* (line 401) and its label (line 405); similarities is the cluster's kernel
\* of line 381
name_cluster(landmk_tr_labels, similarities, top_match) ==
    LET normalizat == RSum(similarities)
        prob == AsSeq([i \in 1..Len(similarities) |-> RDiv(similarities[i], normalizat)])
        uniq_tr == unique(landmk_tr_labels)
        prob_unique ==
            AsSeq([u \in 1..Len(uniq_tr) |->
                      RSum(SelectIdx(prob, LAMBDA i : landmk_tr_labels[i] = uniq_tr[u]))])
        sorted == AsSeq(argsort(prob_unique))
        best == last_elements([r \in 1..Len(uniq_tr) |-> uniq_tr[sorted[r]]], top_match)
        sortedv == last_elements([r \in 1..Len(uniq_tr) |-> prob_unique[sorted[r]]],
                                 top_match)
    IN  [names |-> [i \in 1..Len(best) |-> <<cell_name_mappings[best[i]], sortedv[i]>>],
         label |-> cell_name_mappings[best[Len(best)]]]

\* landmk_tr_labels: the labels of the landmarks of the labeled tasks, one
\* after the other (line 366); ypred_test: assign_labels(), the cluster of
\* every unlabeled cell (line 363); kernel[ytest]: the Gaussian-kernel
\* similarities of cluster ytest's mean to the landmarks (lines 381-382)
name_cell_types(landmk_tr_labels, ypred_test, kernel, top_match) ==
    LET uniq_ytest == unique(ypred_test)
        \* line 384: normalizat == 0 is false
        assigned == {ytest \in Range(uniq_ytest) : ~REq(RSum(kernel[ytest]), R(0))}
        named == [ytest \in assigned |->
                     name_cluster(landmk_tr_labels, kernel[ytest], top_match)]
        interp_names ==
            [ytest \in Range(uniq_ytest) |->
                IF ytest \notin assigned THEN <<"unassigned">> ELSE named[ytest].names]
        cluster_map == [ytest \in assigned |-> named[ytest].label]
    IN  IF \E i \in 1..Len(ypred_test) : ypred_test[i] \notin DOMAIN cluster_map
        THEN \* line 407: cluster_map[y_pred] of a cluster without an entry
             [err |-> "KeyError", returned |-> FALSE,
              interp_names |-> interp_names, cluster_map |-> cluster_map]
        ELSE [err |-> "none", returned |-> TRUE,
              interp_names |-> interp_names, cluster_map |-> cluster_map]

\* a similarity: 0 (the kernel underflows or sigma is 0) or 1
SimVals == {R(0), R(1)}
\* top_match
TopMatches == 0..3
\* the clusters of the unlabeled cells
YPreds == SeqsUpTo({0, 1}, 1, 2)

InitName ==
    /\ TrainIdle
    /\ \E l \in SeqsUpTo({0, 1, 2}, 1, MaxK), y \in YPreds, t \in TopMatches :
          \E k \in [Range(y) -> [1..Len(l) -> SimVals]] :
              call = [fn |-> "name_cell_types", landmk_tr_labels |-> l, ypred_test |-> y,
                      kernel |-> k, top_match |-> t]
    /\ ret = NoCall

call_name_cell_types ==
    /\ call.fn = "name_cell_types"
    /\ ret = NoCall
    /\ LET r == name_cell_types(call.landmk_tr_labels, call.ypred_test, call.kernel,
                                call.top_match)
       IN  ret' = [fn |-> call.fn, err |-> r.err, returned |-> r.returned,
                   interp_names |-> r.interp_names, cluster_map |-> r.cluster_map]
    /\ UnitFrame

SpecName == InitName /\ [][call_name_cell_types]_vars

\* the sum of cluster ytest's similarities to the landmarks is zero
ZeroSimilarity(ytest) == \A i \in 1..Len(call.kernel[ytest]) : call.kernel[ytest][i] = R(0)

\* C3: when the similarities of some cluster sum to zero, the cluster is
\* marked "unassigned" and name_cell_types returns its result without raising.
C3_UnassignedCompletes ==
    (ret.fn = "name_cell_types" /\ \E ytest \in Range(call.ypred_test) : ZeroSimilarity(ytest)) =>
        /\ \A ytest \in Range(call.ypred_test) :
              ZeroSimilarity(ytest) => ret.interp_names[ytest] = <<"unassigned">>
        /\ ret.err = "none"
        /\ ret.returned

\* the aggregate probability of cell type c for cluster ytest, times the sum
\* of the cluster's similarities
Mass(ytest, c) ==
    SumAt(call.kernel[ytest],
          {i \in 1..Len(call.landmk_tr_labels) : call.landmk_tr_labels[i] = c})

KnownTypes == Range(call.landmk_tr_labels)

\* the candidates and the label of cluster ytest are as described
ClusterNamed(ytest) ==
    LET names == ret.interp_names[ytest]
        total == SumAt(call.kernel[ytest], 1..Len(call.kernel[ytest]))
    IN  /\ Len(names) = IF call.top_match < Cardinality(KnownTypes)
                        THEN call.top_match ELSE Cardinality(KnownTypes)
        /\ \A i \in 1..Len(names) :
              /\ cell_type_encoder[names[i][1]] \in KnownTypes
              /\ REq(RMul(names[i][2], total), Mass(ytest, cell_type_encoder[names[i][1]]))
        /\ \A c \in KnownTypes :
              ~RLt(Mass(ytest, cell_type_encoder[ret.cluster_map[ytest]]), Mass(ytest, c))

\* C10: for every cluster of positive total similarity the mass is summed
\* per known cell type over the landmarks carrying it, the candidate list
\* holds min(top_match, number of known cell types) entries, and the label
\* in the cluster map is the cell type of the highest aggregate probability.
C10_TopMatchCandidates ==
    (ret.fn = "name_cell_types" /\ ret.err = "none") =>
        \A ytest \in Range(call.ypred_test) : ClusterNamed(ytest)

\* the same with at least one candidate asked for
TopMatchPositive ==
    (ret.fn = "name_cell_types" /\ ret.err = "none" /\ call.top_match >= 1) =>
        \A ytest \in Range(call.ypred_test) : ClusterNamed(ytest)
====
